---- MODULE Spec2Model ----
(***************************************************************************)
(* Model of the tessel crate (src/src/lib.rs): the Port / Pin registry,    *)
(* the PortSocket channel, the I2C engine built on both, and the LED.      *)
(*                                                                         *)
(* Port holds an Rc<Mutex<PortSocket>>, so Port, Pin and I2C are neither   *)
(* Send nor Sync: every call on one port runs on one thread, and a call    *)
(* is one atomic step of the model.                                        *)
(***************************************************************************)
EXTENDS Integers, Sequences, FiniteSets, TLC

(***************************************************************************)
(* Bounds of the model.                                                    *)
(***************************************************************************)
MaxCalls == 3        \* API calls that touch the channel or the registry
MaxInbound == 3      \* bytes the coprocessor may have queued for the host
MaxReadLen == 2      \* longest read buffer handed to read / transfer
MaxHandles == 2      \* live Pin handles per index the model can represent

(***************************************************************************)
(* Program constants.                                                      *)
(***************************************************************************)
MCU_MAX_SPEED == 48000000
\* 1.5e-8 seconds, held in nanoseconds
MCU_MAX_SCL_RISE_TIME_NS == 15
MCU_MAGIC_DIV_FACTOR_FOR_I2C_BAUD == 2
MCU_MAGIC_SUBTRACT_FACTOR_FOR_I2C_BAUD == 5
U8_MAX == 255
U8_MIN == 0

\* protocol::command and protocol::reply (src/src/protocol.rs is not part of
\* the sources at hand; the byte values are those of the Tessel 2 port protocol)
ENABLE_I2C == 12
TX == 16
RX == 17
START == 19
STOP == 20
DATA == 132

\* u8 arithmetic: `x as u8`, and the bits a shift keeps
AsU8(x) == x % (U8_MAX + 1)

(***************************************************************************)
(* f64 values of compute_baud.  A value x is held exactly as the pair      *)
(*   fl = floor(Scale * x),  ex = (Scale * x is an integer),               *)
(* or as +infinity (inf).  With Scale = 25 every step of compute_baud is   *)
(* exact on this representation: 48e6 * 1.5e-8 = 0.72 = 18/25.  The f64    *)
(* rounding error of the code is below 1e-8 / frequency while two distinct *)
(* values of raw that straddle an integer differ by at least               *)
(* 1 / (25 * frequency), so truncation of the f64 and of the exact value   *)
(* agree (the one frequency with an integral raw, 1562500, gives exactly   *)
(* 30.0 - 0.0 in f64 as well).                                             *)
(***************************************************************************)
Scale == 25

FxInf == [inf |-> TRUE, fl |-> 0, ex |-> TRUE]

FxInt(n) == [inf |-> FALSE, fl |-> n * Scale, ex |-> TRUE]

\* MCU_MAX_SPEED as f64 / frequency as f64
FxMaxSpeedOver(frequency) ==
    IF frequency = 0
    THEN FxInf
    ELSE [inf |-> FALSE,
          fl |-> (MCU_MAX_SPEED * Scale) \div frequency,
          ex |-> (MCU_MAX_SPEED * Scale) % frequency = 0]

\* MCU_MAX_SPEED as f64 * MCU_MAX_SCL_RISE_TIME_NS  (48e6 * 1.5e-8 = 0.72)
FxRiseTerm ==
    [inf |-> FALSE,
     fl |-> ((MCU_MAX_SPEED \div 1000000) * MCU_MAX_SCL_RISE_TIME_NS * Scale) \div 1000,
     ex |-> TRUE]

\* x - y, y exact
FxSub(x, y) == IF x.inf THEN x ELSE [x EXCEPT !.fl = x.fl - y.fl]

\* x / d, d a positive integer
FxDiv(x, d) ==
    IF x.inf THEN x
    ELSE [inf |-> FALSE, fl |-> x.fl \div d, ex |-> x.ex /\ x.fl % d = 0]

\* f64::min(x, n)
FxMin(x, n) == IF x.inf \/ x.fl >= n * Scale THEN FxInt(n) ELSE x

\* `x as i64`: truncation toward zero (x finite)
FxTrunc(x) ==
    IF x.fl >= 0 THEN x.fl \div Scale
    ELSE IF x.ex THEN -((-x.fl) \div Scale)
    ELSE -((-(x.fl + 1)) \div Scale)

\* a compute_baud that wraps instead of saturating at the top
compute_baud_wrapping(frequency) ==
    LET i1 == FxMaxSpeedOver(frequency)
        i2 == FxSub(i1, FxRiseTerm)
        i3 == FxSub(FxDiv(i2, MCU_MAGIC_DIV_FACTOR_FOR_I2C_BAUD),
                    FxInt(MCU_MAGIC_SUBTRACT_FACTOR_FOR_I2C_BAUD))
    IN  IF i3.inf THEN U8_MAX
        ELSE IF FxTrunc(i3) < U8_MIN THEN U8_MIN
        ELSE AsU8(FxTrunc(i3))

compute_baud(frequency) ==
    LET i1 == FxMaxSpeedOver(frequency)
        i2 == FxSub(i1, FxRiseTerm)
        i3 == FxSub(FxDiv(i2, MCU_MAGIC_DIV_FACTOR_FOR_I2C_BAUD),
                    FxInt(MCU_MAGIC_SUBTRACT_FACTOR_FOR_I2C_BAUD))
        \* Return either the intermediate value or 255
        low == FxMin(i3, U8_MAX)
    IN  IF FxTrunc(low) < U8_MIN
        THEN U8_MIN
        ELSE FxTrunc(low)

(***************************************************************************)
(* Inputs of the calls.                                                    *)
(***************************************************************************)
\* pin indices a caller may ask for: the two I2C lines and one more
PinIndices == {0, 1, 2}
\* the registry of a port whose two I2C lines have an entry
I2CPins == {0, 1}
\* 7-bit and 8-bit addresses (200 << 1 does not fit a u8)
Addresses == {5, 200}
WriteBufs == {<<>>, <<7>>, <<7, 12>>}
\* transfer writes the length of its write buffer only
TransferWriteBufs == {<<>>, <<7, 12>>}
ReadLens == 0..MaxReadLen
Frequencies == {1000000, 2400000}
\* bytes the coprocessor may send: the data tag and another byte
DeviceBytes == {DATA, 7}

VARIABLES
    pins,           \* Port.pins: the indices that have a registry entry
    locked,         \* the registry mutexes that are locked
    poisoned,       \* the registry mutexes that are poisoned
    handles,        \* live Pin values outside an engine, per index
    errs,           \* live TryLockError::Poisoned values (each holds its guard)
    i2c,            \* the I2C engine of the port, if one is alive
    sockPoisoned,   \* the channel mutex is poisoned
    trace,          \* the socket calls of the latest API call, in program
                    \* order: <<"w", b>> a byte written, <<"r", b>> a byte read
    firstWrite,     \* the API call that wrote the first byte this port's
                    \* channel ever carried ("none" before it)
    inq,            \* bytes sent by the coprocessor and not yet read
    status,         \* the thread: running, panicking, blocked, exited
    calls,          \* API calls made so far
    last,           \* the latest API call: its arguments and outcome
    cb_in,          \* compute_baud harness: the frequency
    cb_out,         \* compute_baud harness: the result, -1 before the call
    ch,             \* the channel seen one stream call at a time: its mutex,
                    \* the bytes on the wire and the operations in progress
    led             \* an LED: its value, the file behind it, its latest call

vars == <<pins, locked, poisoned, handles, errs, i2c, sockPoisoned, trace,
          firstWrite, inq, status, calls, last, cb_in, cb_out, ch, led>>

NoPlan == [failAt |-> 0, shortAt |-> 0, accept |-> 0, partial |-> 0]

\* fault: the stream call of this API call that failed with an I/O error
\* (0: none); dropped: the bytes a short write of this call did not accept
NoCall == [op |-> "none", result |-> "none", index |-> 0, frequency |-> 0,
           address |-> 0, wbuf |-> <<>>, rlen |-> 0, rbuf |-> <<>>,
           fault |-> 0, dropped |-> 0]

NoI2C == [live |-> FALSE, frequency |-> 0]

\* the callers that may run an operation on the channel
Callers == {1, 2}

\* no operation in progress: todo are the stream writes still to make,
\* reads the read_exact calls still to make (their buffer lengths)
Idle == [op |-> "none", serial |-> 0, todo |-> <<>>, reads |-> <<>>,
         tag |-> FALSE]

NoChan == [holder |-> 0, poisoned |-> FALSE, wire |-> <<>>, inq |-> <<>>,
           run |-> [c \in Callers |-> Idle], started |-> 0]

\* value and file are the fields of LED; op, result, was (the value before
\* the call), got (what read() returned), lastOk (the value of the latest
\* write the file took) and ops describe the calls made
NoLED == [made |-> FALSE, value |-> FALSE, file |-> <<>>, op |-> "none",
          result |-> "none", was |-> FALSE, got |-> FALSE, lastOk |-> FALSE,
          ops |-> 0]

Min(a, b) == IF a < b THEN a ELSE b

(***************************************************************************)
(* The stream under PortSocket.  A socket value s carries the history, the *)
(* inbound bytes, the number of stream calls made by the running API call  *)
(* (n), the fault plan of that call, the outcome of the latest stream call *)
(* (ok, blocked), the buffer the latest read filled (buf), and what went   *)
(* wrong so far (fault, dropped).                                          *)
(*   plan.failAt  = k: the k-th stream call fails with an I/O error        *)
(*   plan.shortAt = k: the k-th stream call, a write, accepts only         *)
(*                     plan.accept bytes (Write::write may be short)       *)
(*   plan.partial    : bytes a failing read_exact had consumed             *)
(***************************************************************************)
SockOf(tr, q, plan) ==
    [tr |-> tr, inq |-> q, n |-> 0, plan |-> plan, ok |-> TRUE,
     blocked |-> FALSE, buf |-> <<>>, fault |-> 0, dropped |-> 0]

Zeros(len) == [i \in 1..len |-> 0]

\* UnixStream::write: Ok(count) with the bytes accepted, or Err
UnixStream_write(s, buffer) ==
    LET k == s.n + 1
        m == IF s.plan.shortAt = k /\ s.plan.accept < Len(buffer)
             THEN s.plan.accept ELSE Len(buffer)
    IN  IF s.plan.failAt = k
        THEN [s EXCEPT !.n = k, !.ok = FALSE, !.fault = k]
        ELSE [s EXCEPT !.n = k, !.ok = TRUE,
                       !.dropped = @ + (Len(buffer) - m),
                       !.tr = @ \o [i \in 1..m |-> <<"w", buffer[i]>>]]

\* UnixStream::read_exact on a buffer of len zeroed bytes: fills it, blocks
\* until the bytes are there, or fails having consumed some of them
UnixStream_read_exact(s, len) ==
    LET k == s.n + 1
        c == Min(s.plan.partial, Min(Len(s.inq), len - 1))
    IN  IF len = 0
        THEN [s EXCEPT !.ok = TRUE, !.buf = <<>>]
        ELSE IF s.plan.failAt = k
        THEN [s EXCEPT !.n = k, !.ok = FALSE, !.fault = k,
                       !.tr = @ \o [i \in 1..c |-> <<"r", s.inq[i]>>],
                       !.inq = SubSeq(@, c + 1, Len(@)),
                       !.buf = SubSeq(s.inq, 1, c) \o Zeros(len - c)]
        ELSE IF Len(s.inq) < len
        THEN [s EXCEPT !.blocked = TRUE]
        ELSE [s EXCEPT !.n = k, !.ok = TRUE,
                       !.tr = @ \o [i \in 1..len |-> <<"r", s.inq[i]>>],
                       !.inq = SubSeq(@, len + 1, Len(@)),
                       !.buf = SubSeq(s.inq, 1, len)]

(***************************************************************************)
(* PortSocket                                                              *)
(***************************************************************************)
\* try!(self.socket.write(buffer)); Ok(())  -- the count is dropped
PortSocket_write(s, buffer) == UnixStream_write(s, buffer)

PortSocket_write_command(s, cmd, buffer) ==
    LET s1 == UnixStream_write(s, <<cmd>>)
    IN  IF ~s1.ok THEN s1 ELSE UnixStream_write(s1, buffer)

PortSocket_read_exact(s, len) == UnixStream_read_exact(s, len)

(***************************************************************************)
(* I2C: the writes of each operation, in program order.  Every write is    *)
(* unwrap()ed: the first one that fails panics and the rest is not made.   *)
(***************************************************************************)
Cmd(c, payload) == [raw |-> FALSE, cmd |-> c, buf |-> payload]
Raw(buffer) == [raw |-> TRUE, cmd |-> 0, buf |-> buffer]

RECURSIVE WriteAll(_, _)
WriteAll(s, items) ==
    IF items = <<>> THEN s
    ELSE LET it == Head(items)
             s1 == IF it.raw THEN PortSocket_write(s, it.buf)
                   ELSE PortSocket_write_command(s, it.cmd, it.buf)
         IN  IF ~s1.ok THEN s1 ELSE WriteAll(s1, Tail(items))

\* address << 1 and address << 1 | 1 on a u8
WriteAddress(address) == AsU8(address * 2)
ReadAddress(address) == AsU8(address * 2) + 1

\* enable without its payload byte
enable_writes_no_baud(baud) == << Cmd(ENABLE_I2C, <<>>) >>

enable_writes(baud) == << Cmd(ENABLE_I2C, <<baud>>) >>

send_writes(address, write_buf) ==
    << Cmd(START, <<WriteAddress(address)>>),
       Cmd(TX, <<AsU8(Len(write_buf))>>),
       Raw(write_buf),
       Cmd(STOP, <<>>) >>

\* read that addresses the device in the write direction
read_writes_write_dir(address, read_len) ==
    << Cmd(START, <<WriteAddress(address)>>),
       Cmd(RX, <<AsU8(read_len)>>),
       Cmd(STOP, <<>>) >>

read_writes(address, read_len) ==
    << Cmd(START, <<ReadAddress(address)>>),
       Cmd(RX, <<AsU8(read_len)>>),
       Cmd(STOP, <<>>) >>

\* transfer that ends the first phase with a stop frame
transfer_writes_stop_between(address, write_buf, read_len) ==
    << Cmd(START, <<ReadAddress(address)>>),
       Cmd(TX, <<AsU8(Len(write_buf))>>),
       Cmd(STOP, <<>>),
       Cmd(START, <<ReadAddress(address)>>),
       Cmd(RX, <<AsU8(read_len)>>),
       Cmd(STOP, <<>>) >>

transfer_writes(address, write_buf, read_len) ==
    << Cmd(START, <<ReadAddress(address)>>),
       Cmd(TX, <<AsU8(Len(write_buf))>>),
       Cmd(START, <<ReadAddress(address)>>),
       Cmd(RX, <<AsU8(read_len)>>),
       Cmd(STOP, <<>>) >>

\* The outcome of an operation: the socket after it, how it ended
\* (Ok, Err, Panic, or Blocked: waiting for bytes that are not there yet),
\* and the read buffer.
Outcome(s, result, rbuf) == [sock |-> s, result |-> result, rbuf |-> rbuf]

\* The reply part of read and of transfer: the result of the tag read is
\* dropped, the tag buffer is compared by assert_eq!, and the payload read's
\* result is the operation's.
read_reply(s, read_len) ==
    LET s1 == PortSocket_read_exact(s, 1)
        s2 == PortSocket_read_exact(s1, read_len)
    IN  IF s1.blocked THEN Outcome(s1, "Blocked", <<>>)
        ELSE IF s1.buf[1] # DATA THEN Outcome(s1, "Panic", Zeros(read_len))
        ELSE IF s2.blocked THEN Outcome(s2, "Blocked", <<>>)
        ELSE Outcome(s2, IF s2.ok THEN "Ok" ELSE "Err", s2.buf)

I2C_enable(s, baud) ==
    LET s1 == WriteAll(s, enable_writes(baud))
    IN  Outcome(s1, IF s1.ok THEN "Ok" ELSE "Panic", <<>>)

I2C_send(s, address, write_buf) ==
    LET s1 == WriteAll(s, send_writes(address, write_buf))
    IN  Outcome(s1, IF s1.ok THEN "Ok" ELSE "Panic", <<>>)

I2C_read(s, address, read_len) ==
    LET s1 == WriteAll(s, read_writes(address, read_len))
    IN  IF ~s1.ok THEN Outcome(s1, "Panic", Zeros(read_len))
        ELSE read_reply(s1, read_len)

I2C_transfer(s, address, write_buf, read_len) ==
    LET s1 == WriteAll(s, transfer_writes(address, write_buf, read_len))
    IN  IF ~s1.ok THEN Outcome(s1, "Panic", Zeros(read_len))
        ELSE read_reply(s1, read_len)

(***************************************************************************)
(* Port: the registry.                                                     *)
(***************************************************************************)
\* Port::new: pins: HashMap::new()
Port_new == {}

\* Mutex::lock on a mutex this thread holds never returns: std leaves open
\* whether it deadlocks or panics.
RelockOutcomes == {"Deadlock", "Panic"}

\* a registry whose entries do not exclude: a held line is handed out again
Port_pin_shared(reg, lk, pz, index) ==
    IF index \notin reg THEN [out |-> "Panic", locked |-> lk]
    ELSE IF index \in pz THEN [out |-> "Err", locked |-> lk \cup {index}]
    ELSE [out |-> "Ok", locked |-> lk \cup {index}]

\* Port::pin.  self.pins.get(&index).expect(..) panics without an entry;
\* lock() on a free mutex returns the guard, inside a PoisonError when the
\* mutex is poisoned (try! turns it into TryLockError::Poisoned, which keeps
\* the guard and so the lock).
Port_pin(reg, lk, pz, index) ==
    IF index \notin reg THEN [out |-> "Panic", locked |-> lk]
    ELSE IF index \in lk THEN [out |-> "Relock", locked |-> lk]
    ELSE IF index \in pz THEN [out |-> "Err", locked |-> lk \cup {index}]
    ELSE [out |-> "Ok", locked |-> lk \cup {index}]

\* What a call of Port::i2c leaves behind.
\*   result: Ok (engine built), Err, Panic, Deadlock
\*   errs:   the indices whose guard the returned error holds
\*   stuck:  the indices whose Pin is held by the frame that deadlocked
I2COutcome(result, lk, pz, er, stuck, sp, s) ==
    [result |-> result, locked |-> lk, poisoned |-> pz, errs |-> er,
     stuck |-> stuck, sockPoisoned |-> sp, sock |-> s]

\* I2C::new: compute_baud, build the engine, enable (lock().unwrap() on the
\* channel, then the enable frame, unwrap()ed).  A panic unwinds through
\* I2C::new and drops the engine with both pins: their mutexes end free and
\* poisoned.
I2C_new(lk0, lk, pz, sp, s, frequency) ==
    LET baud == compute_baud(frequency)
        en == I2C_enable(s, baud)
    IN  IF sp
        THEN I2COutcome("Panic", lk0, pz \cup I2CPins, {}, {}, sp, s)
        ELSE IF en.result = "Panic"
        THEN I2COutcome("Panic", lk0, pz \cup I2CPins, {}, {}, TRUE, en.sock)
        ELSE I2COutcome("Ok", lk, pz, {}, {}, sp, en.sock)

\* an i2c that keeps scl locked when the lock of sda returns an error
Port_i2c_keeps_scl(reg, lk, pz, sp, s, frequency, how) ==
    LET p0 == Port_pin(reg, lk, pz, 0)
        o0 == IF p0.out = "Relock" THEN how ELSE p0.out
        p1 == Port_pin(reg, p0.locked, pz, 1)
        o1 == IF p1.out = "Relock" THEN how ELSE p1.out
    IN  CASE o0 \in {"Panic", "Deadlock"} ->
                I2COutcome(o0, lk, pz, {}, {}, sp, s)
          [] o0 = "Err" ->
                I2COutcome("Err", p0.locked, pz, {0}, {}, sp, s)
          [] o0 = "Ok" /\ o1 = "Panic" ->
                I2COutcome("Panic", lk, pz \cup {0}, {}, {}, sp, s)
          [] o0 = "Ok" /\ o1 = "Deadlock" ->
                I2COutcome("Deadlock", p0.locked, pz, {}, {0}, sp, s)
          [] o0 = "Ok" /\ o1 = "Err" ->
                I2COutcome("Err", p1.locked, pz, {1}, {}, sp, s)
          [] o0 = "Ok" /\ o1 = "Ok" ->
                I2C_new(lk, p1.locked, pz, sp, s, frequency)

\* Port::i2c: scl = try!(pin(0)); sda = try!(pin(1)); I2C::new(..).
\* `how` is what a lock() on a held mutex does.
Port_i2c(reg, lk, pz, sp, s, frequency, how) ==
    LET p0 == Port_pin(reg, lk, pz, 0)
        o0 == IF p0.out = "Relock" THEN how ELSE p0.out
        p1 == Port_pin(reg, p0.locked, pz, 1)
        o1 == IF p1.out = "Relock" THEN how ELSE p1.out
    IN  CASE o0 \in {"Panic", "Deadlock"} ->
                I2COutcome(o0, lk, pz, {}, {}, sp, s)
          [] o0 = "Err" ->
                I2COutcome("Err", p0.locked, pz, {0}, {}, sp, s)
          [] o0 = "Ok" /\ o1 = "Panic" ->
                \* scl is dropped by the unwinding
                I2COutcome("Panic", lk, pz \cup {0}, {}, {}, sp, s)
          [] o0 = "Ok" /\ o1 = "Deadlock" ->
                I2COutcome("Deadlock", p0.locked, pz, {}, {0}, sp, s)
          [] o0 = "Ok" /\ o1 = "Err" ->
                \* scl is dropped by the early return
                I2COutcome("Err", p1.locked \ {0}, pz, {1}, {}, sp, s)
          [] o0 = "Ok" /\ o1 = "Ok" ->
                I2C_new(lk, p1.locked, pz, sp, s, frequency)

StatusAfter(result) ==
    CASE result = "Panic" -> "panicking"
      [] result = "Deadlock" -> "blocked"
      [] OTHER -> "running"

(***************************************************************************)
(* The state machine.                                                      *)
(***************************************************************************)
Init ==
    /\ pins \in {Port_new, I2CPins}
    /\ locked = {}
    /\ poisoned = {}
    /\ handles = [i \in PinIndices |-> 0]
    /\ errs = {}
    /\ i2c = NoI2C
    /\ sockPoisoned = FALSE
    /\ trace = <<>>
    /\ firstWrite = "none"
    /\ inq = <<>>
    /\ status = "running"
    /\ calls = 0
    /\ last = NoCall
    /\ cb_in = 0
    /\ cb_out = -1
    /\ ch = NoChan
    /\ led = NoLED

CanCall == status = "running" /\ calls < MaxCalls

\* port.pin(index)
Pin(index, how) ==
    /\ CanCall
    /\ handles[index] < MaxHandles
    /\ LET p == Port_pin(pins, locked, poisoned, index)
           o == IF p.out = "Relock" THEN how ELSE p.out
       IN  /\ locked' = p.locked
           /\ handles' = IF o = "Ok" THEN [handles EXCEPT ![index] = @ + 1]
                         ELSE handles
           /\ errs' = IF o = "Err" THEN errs \cup {index} ELSE errs
           /\ status' = StatusAfter(o)
           /\ last' = [NoCall EXCEPT !.op = "pin", !.index = index, !.result = o]
    /\ trace' = <<>>
    /\ calls' = calls + 1
    /\ UNCHANGED <<pins, poisoned, i2c, sockPoisoned, firstWrite, inq, cb_in,
                   cb_out, ch, led>>

\* a Pin goes out of scope: its guard unlocks the mutex
DropPin(index) ==
    /\ status = "running"
    /\ handles[index] > 0
    /\ handles' = [handles EXCEPT ![index] = @ - 1]
    /\ locked' = locked \ {index}
    /\ UNCHANGED <<pins, poisoned, errs, i2c, sockPoisoned, trace, firstWrite,
                   inq, status, calls, last, cb_in, cb_out, ch, led>>

\* a TryLockError::Poisoned goes out of scope, and its guard with it
DropErr(index) ==
    /\ status = "running"
    /\ index \in errs
    /\ errs' = errs \ {index}
    /\ locked' = locked \ {index}
    /\ UNCHANGED <<pins, poisoned, handles, i2c, sockPoisoned, trace,
                   firstWrite, inq, status, calls, last, cb_in, cb_out, ch, led>>

\* port.i2c(frequency)
I2CCall(frequency, how, plan) ==
    /\ CanCall
    /\ LET r == Port_i2c(pins, locked, poisoned, sockPoisoned,
                         SockOf(<<>>, inq, plan), frequency, how)
       IN  /\ locked' = r.locked
           /\ poisoned' = r.poisoned
           /\ errs' = errs \cup r.errs
           /\ handles' = [i \in PinIndices |->
                            IF i \in r.stuck THEN handles[i] + 1 ELSE handles[i]]
           /\ sockPoisoned' = r.sockPoisoned
           /\ trace' = r.sock.tr
           /\ firstWrite' = IF firstWrite = "none" /\ r.sock.tr # <<>>
                            THEN "i2c" ELSE firstWrite
           /\ i2c' = IF r.result = "Ok"
                     THEN [live |-> TRUE, frequency |-> frequency] ELSE i2c
           /\ status' = StatusAfter(r.result)
           /\ last' = [NoCall EXCEPT !.op = "i2c", !.frequency = frequency,
                                     !.result = r.result,
                                     !.fault = r.sock.fault]
    /\ calls' = calls + 1
    /\ UNCHANGED <<pins, inq, cb_in, cb_out, ch, led>>

\* the engine goes out of scope: both pins are released
DropI2C ==
    /\ status = "running"
    /\ i2c.live
    /\ i2c' = NoI2C
    /\ locked' = locked \ I2CPins
    /\ UNCHANGED <<pins, poisoned, handles, errs, sockPoisoned, trace,
                   firstWrite, inq, status, calls, last, cb_in, cb_out, ch, led>>

\* Fault plans: which stream call fails, whether the payload write of send
\* is short, how much a failing payload read had consumed.
Plans(nsys, shortAts, maxAccept, maxPartial) ==
    {[failAt |-> f, shortAt |-> sh, accept |-> a, partial |-> p] :
        f \in 0..nsys, sh \in shortAts, a \in 1..maxAccept, p \in 0..maxPartial}

EnablePlans == Plans(2, {0}, 1, 0)
\* send makes 7 stream calls; the 5th writes the buffer
SendPlans(write_buf) ==
    IF Len(write_buf) >= 2
    THEN Plans(7, {0, 5}, Len(write_buf) - 1, 0)
    ELSE Plans(7, {0}, 1, 0)
\* read makes 6 writes, the tag read and the payload read
ReadPlans(read_len) == Plans(8, {0}, 1, IF read_len >= 2 THEN read_len - 1 ELSE 0)
\* transfer makes 10 writes, the tag read and the payload read
TransferPlans(read_len) ==
    Plans(12, {0}, 1, IF read_len >= 2 THEN read_len - 1 ELSE 0)

\* An operation of the engine: self.socket.lock().unwrap() panics on a
\* poisoned channel mutex before anything is written; a panic inside the
\* operation drops the channel guard and poisons the mutex.
EngineCall(o, rec) ==
    /\ o.result # "Blocked"
    \* no stream call is made on a poisoned channel mutex: one plan stands
    \* for all
    /\ sockPoisoned => o.sock.plan.failAt = 0 /\ o.sock.plan.shortAt = 0
                        /\ o.sock.plan.partial = 0
    /\ trace' = o.sock.tr
    /\ firstWrite' = IF firstWrite = "none" /\ o.sock.tr # <<>>
                     THEN rec.op ELSE firstWrite
    /\ inq' = o.sock.inq
    /\ sockPoisoned' = (sockPoisoned \/ o.result = "Panic")
    /\ status' = StatusAfter(o.result)
    /\ last' = [rec EXCEPT !.result = o.result, !.rbuf = o.rbuf,
                           !.fault = o.sock.fault, !.dropped = o.sock.dropped]
    /\ calls' = calls + 1
    /\ UNCHANGED <<pins, locked, poisoned, handles, errs, i2c, cb_in, cb_out, ch, led>>

LockPanic(s) == Outcome(s, "Panic", <<>>)

\* i2c.send(address, write_buf)
Send(address, write_buf, plan) ==
    /\ CanCall
    /\ i2c.live
    /\ LET s == SockOf(<<>>, inq, plan)
       IN  EngineCall(IF sockPoisoned THEN LockPanic(s)
                      ELSE I2C_send(s, address, write_buf),
                      [NoCall EXCEPT !.op = "send", !.address = address,
                                     !.wbuf = write_buf])

\* i2c.read(address, read_buf) with read_buf of read_len bytes
Read(address, read_len, plan) ==
    /\ CanCall
    /\ i2c.live
    /\ LET s == SockOf(<<>>, inq, plan)
       IN  EngineCall(IF sockPoisoned THEN LockPanic(s)
                      ELSE I2C_read(s, address, read_len),
                      [NoCall EXCEPT !.op = "read", !.address = address,
                                     !.rlen = read_len])

\* i2c.transfer(address, write_buf, read_buf)
Transfer(address, write_buf, read_len, plan) ==
    /\ CanCall
    /\ i2c.live
    /\ LET s == SockOf(<<>>, inq, plan)
       IN  EngineCall(IF sockPoisoned THEN LockPanic(s)
                      ELSE I2C_transfer(s, address, write_buf, read_len),
                      [NoCall EXCEPT !.op = "transfer", !.address = address,
                                     !.wbuf = write_buf, !.rlen = read_len])

\* The coprocessor sends a byte.  Inbound bytes are read by the engine's
\* operations alone, so the bytes sent while no engine is alive or no call
\* can follow are left out: they change nothing a call can see.
DeviceReply(b) ==
    /\ CanCall
    /\ i2c.live
    /\ Len(inq) < MaxInbound
    /\ inq' = Append(inq, b)
    /\ UNCHANGED <<pins, locked, poisoned, handles, errs, i2c, sockPoisoned,
                   trace, firstWrite, status, calls, last, cb_in, cb_out, ch, led>>

\* A panic unwinds.  The values owned by the unwound frames are dropped
\* while the thread panics, which unlocks and poisons their mutexes: any of
\* the live pins (D), errors (E) and the engine (e) may be among them.  The
\* panic is caught by a catch_unwind further up, or ends the thread.
Unwind(D, E, e, caught) ==
    /\ status = "panicking"
    /\ e => i2c.live
    /\ LET gone == D \cup E \cup (IF e THEN I2CPins ELSE {})
       IN  /\ locked' = locked \ gone
           /\ poisoned' = poisoned \cup gone
    /\ handles' = [i \in PinIndices |->
                     IF i \in D THEN handles[i] - 1 ELSE handles[i]]
    /\ errs' = errs \ E
    /\ i2c' = IF e THEN NoI2C ELSE i2c
    /\ status' = IF caught THEN "running" ELSE "exited"
    /\ UNCHANGED <<pins, sockPoisoned, trace, firstWrite, inq, calls, last,
                   cb_in, cb_out, ch, led>>

Next ==
    \/ \E index \in PinIndices, how \in RelockOutcomes : Pin(index, how)
    \/ \E index \in PinIndices : DropPin(index)
    \/ \E index \in PinIndices : DropErr(index)
    \/ \E frequency \in Frequencies, how \in RelockOutcomes, plan \in EnablePlans :
          I2CCall(frequency, how, plan)
    \/ DropI2C
    \/ \E address \in Addresses, write_buf \in WriteBufs :
          \E plan \in SendPlans(write_buf) : Send(address, write_buf, plan)
    \/ \E address \in Addresses, read_len \in ReadLens :
          \E plan \in ReadPlans(read_len) : Read(address, read_len, plan)
    \/ \E address \in Addresses, write_buf \in TransferWriteBufs,
          read_len \in ReadLens :
          \E plan \in TransferPlans(read_len) :
             Transfer(address, write_buf, read_len, plan)
    \/ \E b \in DeviceBytes : DeviceReply(b)
    \/ \E D \in SUBSET {i \in PinIndices : handles[i] > 0}, E \in SUBSET errs,
          e \in BOOLEAN, caught \in BOOLEAN : Unwind(D, E, e, caught)

Spec == Init /\ [][Next]_vars

(***************************************************************************)
(* compute_baud on its own: a frequency is drawn, the function is applied. *)
(* TLC's integers end at 2^31 - 1, so do the frequencies drawn.            *)
(***************************************************************************)
BaudSampleStep == 25000
BaudSampleCount == 240

BaudFrequencies ==
    {k * BaudSampleStep : k \in 0..BaudSampleCount}
    \cup {1, 92180, 92181, 100000, 1000000, 1562499, 1562500, 1562501,
          2400000, 4477611, 4477612, MCU_MAX_SPEED, MCU_MAX_SPEED + 1, 2147483647}

InitBaud ==
    /\ pins = Port_new
    /\ locked = {}
    /\ poisoned = {}
    /\ handles = [i \in PinIndices |-> 0]
    /\ errs = {}
    /\ i2c = NoI2C
    /\ sockPoisoned = FALSE
    /\ trace = <<>>
    /\ firstWrite = "none"
    /\ inq = <<>>
    /\ status = "running"
    /\ calls = 0
    /\ last = NoCall
    /\ cb_in \in BaudFrequencies
    /\ cb_out = -1
    /\ ch = NoChan
    /\ led = NoLED

BaudCall ==
    /\ cb_out = -1
    /\ cb_out' = compute_baud(cb_in)
    /\ UNCHANGED <<pins, locked, poisoned, handles, errs, i2c, sockPoisoned,
                   trace, firstWrite, inq, status, calls, last, cb_in, ch, led>>

NextBaud == BaudCall

SpecBaud == InitBaud /\ [][NextBaud]_vars

(***************************************************************************)
(* C9.  compute_baud(1000000) is 4, the value of the function's documented *)
(* example.                                                                *)
(***************************************************************************)
C9_DocExample == (cb_in = 1000000 /\ cb_out # -1) => cb_out = 4

(***************************************************************************)
(* C10.  For every frequency compute_baud returns a byte: 255 when         *)
(* raw = (48000000/frequency - 0.72)/2 - 5 exceeds 255 (frequency 0 gives  *)
(* +infinity), 0 when raw is below 0, and raw truncated to an integer      *)
(* otherwise.  With f = frequency > 0, 25 * f * raw = 600000000 - 134 * f, *)
(* which states each case by a bound on f (no product with f is formed).   *)
(***************************************************************************)
RawScaled == (MCU_MAX_SPEED \div 2) * 25      \* 25 * 48000000 / 2
RawOffset == 9 + 125                          \* 25 * (0.72 / 2 + 5)

RawAbove255(f) == f = 0 \/ f <= (RawScaled - 1) \div (25 * 255 + RawOffset)
RawBelow0(f) == f # 0 /\ f > RawScaled \div RawOffset
\* r <= raw < r + 1
RawTruncatesTo(f, r) ==
    /\ f # 0
    /\ f <= RawScaled \div (25 * r + RawOffset)
    /\ f > RawScaled \div (25 * (r + 1) + RawOffset)

C10_ClampedBaud ==
    cb_out # -1 =>
        /\ cb_out \in 0..255
        /\ RawAbove255(cb_in) => cb_out = 255
        /\ RawBelow0(cb_in) => cb_out = 0
        /\ (~RawAbove255(cb_in) /\ ~RawBelow0(cb_in)) =>
              RawTruncatesTo(cb_in, cb_out)

\* the function has been applied at the largest frequency that saturates
C10_Witness == cb_in = 92180 /\ cb_out = 255

(***************************************************************************)
(* Reading the log of a call.                                              *)
(***************************************************************************)
W(bytes) == [i \in 1..Len(bytes) |-> <<"w", bytes[i]>>]
R(bytes) == [i \in 1..Len(bytes) |-> <<"r", bytes[i]>>]
HasRead(tr) == \E i \in 1..Len(tr) : tr[i][1] = "r"
ReadsFrom(tr, k) == \A i \in 1..Len(tr) : (tr[i][1] = "r") <=> (i >= k)
FirstRead(tr) == tr[CHOOSE i \in 1..Len(tr) :
                       tr[i][1] = "r" /\ \A j \in 1..(i - 1) : tr[j][1] = "w"][2]
\* a step that is the API call `op`
Called(op) == calls' = calls + 1 /\ last'.op = op
\* the pin lines a Pin, an engine or an error holds
Owners(i) ==
    handles[i] + (IF i2c.live /\ i \in I2CPins THEN 1 ELSE 0)
               + (IF i \in errs THEN 1 ELSE 0)

(***************************************************************************)
(* C1.  send(address, buf) that returns has written exactly                *)
(* [START, address<<1], [TX, len(buf)], the bytes of buf, [STOP], in that  *)
(* order, and has read nothing (buffers within the one-byte length field). *)
(***************************************************************************)
SendExpected(address, buf) ==
    <<START, (address * 2) % 256, TX, Len(buf)>> \o buf \o <<STOP>>

C1_SendFrames ==
    (last.op = "send" /\ last.result = "Ok" /\ Len(last.wbuf) <= U8_MAX) =>
        trace = W(SendExpected(last.address, last.wbuf))

(***************************************************************************)
(* C2.  read(address, buf): every byte it reads comes after the writes     *)
(* [START, address<<1|1], [RX, len(buf)], [STOP]; when the first byte read *)
(* back is the data tag and no stream call fails, it reads exactly         *)
(* len(buf) more bytes into buf, in stream order, returns Ok, and leaves   *)
(* the later inbound bytes where they are.                                 *)
(***************************************************************************)
ReadExpected(address, n) == <<START, ((address * 2) % 256) + 1, RX, n, STOP>>

\* what the reply part must do after the writes w, n = len(buf)
ReplyAsClaimed(w, n) ==
    /\ HasRead(trace') =>
          /\ Len(trace') > Len(w)
          /\ SubSeq(trace', 1, Len(w)) = w
          /\ ReadsFrom(trace', Len(w) + 1)
    /\ (HasRead(trace') /\ FirstRead(trace') = DATA /\ last'.fault = 0) =>
          /\ last'.result = "Ok"
          /\ trace' = w \o R(SubSeq(inq, 1, n + 1))
          /\ last'.rbuf = SubSeq(inq, 2, n + 1)
          /\ inq' = SubSeq(inq, n + 2, Len(inq))

C2_ReadSequence ==
    [][(Called("read") /\ last'.rlen <= U8_MAX) =>
          ReplyAsClaimed(W(ReadExpected(last'.address, last'.rlen)), last'.rlen)]_vars

\* a read of one byte has returned Ok and a later inbound byte is unread
C2_Witness ==
    /\ last.op = "read" /\ last.result = "Ok" /\ last.rlen = 1
    /\ last.rbuf = <<7>> /\ inq # <<>>

(***************************************************************************)
(* C3.  In read and transfer, a first byte read back that is not the data  *)
(* tag is reported to the caller as an error outcome of its own, distinct  *)
(* from the generic I/O error.                                             *)
(***************************************************************************)
TagMismatch ==
    /\ last.op \in {"read", "transfer"}
    /\ HasRead(trace)
    /\ FirstRead(trace) # DATA

C3_DesyncReported == TagMismatch => last.result = "Desync"

(***************************************************************************)
(* C4.  transfer(address, write_buf, read_buf) writes                      *)
(* [START, address<<1|1], [TX, len(write_buf)], [START, address<<1|1],     *)
(* [RX, len(read_buf)], [STOP] and then does what read does with the       *)
(* reply.                                                                  *)
(***************************************************************************)
TransferExpected(address, wbuf, n) ==
    <<START, ((address * 2) % 256) + 1, TX, Len(wbuf),
      START, ((address * 2) % 256) + 1, RX, n, STOP>>

C4_TransferSequence ==
    [][(Called("transfer") /\ last'.rlen <= U8_MAX /\ Len(last'.wbuf) <= U8_MAX) =>
          /\ ReplyAsClaimed(W(TransferExpected(last'.address, last'.wbuf,
                                               last'.rlen)), last'.rlen)
          /\ last'.fault = 0 /\ ~sockPoisoned =>
                \E k \in 0..Len(trace') :
                   SubSeq(trace', 1, k) =
                      W(TransferExpected(last'.address, last'.wbuf, last'.rlen))]_vars

\* a transfer with a two-byte write buffer has read two bytes and returned Ok
C4_Witness ==
    /\ last.op = "transfer" /\ last.result = "Ok" /\ last.rlen = 2
    /\ Len(last.wbuf) = 2 /\ Len(last.rbuf) = 2

(***************************************************************************)
(* C5.  i2c(frequency) called while a live Pin holds pin 0 or pin 1        *)
(* returns an error, builds no engine and writes nothing to the channel.   *)
(***************************************************************************)
C5_HeldPinFails ==
    [][(Called("i2c") /\ (handles[0] > 0 \/ handles[1] > 0)) =>
          /\ last'.result = "Err"
          /\ ~i2c'.live
          /\ trace' = <<>>]_vars

(***************************************************************************)
(* C6.  At every moment a pin index has at most one live owner, whose      *)
(* mutex is locked; an acquisition of an index completes only when no      *)
(* owner of that index is alive.                                           *)
(***************************************************************************)
C6_AtMostOne ==
    \A i \in PinIndices : Owners(i) <= 1 /\ (Owners(i) = 1 => i \in locked)

C6_AcquireStep ==
    /\ \A i \in PinIndices :
          (Called("pin") /\ last'.index = i /\ last'.result = "Ok") =>
             Owners(i) = 0
    /\ (Called("i2c") /\ last'.result = "Ok") => Owners(0) = 0 /\ Owners(1) = 0

C6_Exclusive == []C6_AtMostOne /\ [][C6_AcquireStep]_vars

\* pin 0 was held by an engine, the engine was dropped, and pin(0) has
\* returned a handle
C6_Witness ==
    /\ firstWrite = "i2c" /\ ~i2c.live /\ poisoned = {}
    /\ last.op = "pin" /\ last.index = 0 /\ last.result = "Ok"
    /\ handles[0] = 1

(***************************************************************************)
(* C7.  On a port fresh from Port::new, with no handle outstanding, pin(0) *)
(* and pin(1) each return a handle and i2c(frequency) returns an engine.   *)
(***************************************************************************)
C7_FreshPortGrants ==
    (/\ pins = Port_new
     /\ calls = 1
     /\ last.op \in {"pin", "i2c"}
     /\ last.op = "pin" => last.index \in I2CPins)
    => last.result = "Ok"

(***************************************************************************)
(* C8.  A successful i2c(frequency) writes the enable frame                *)
(* [ENABLE_I2C, compute_baud(frequency)] once and reads nothing; these are *)
(* the first bytes of the channel, every operation of the engine starts    *)
(* with a START frame, and an engine exists only after its enable frame.   *)
(* A frequency that maps to divisor 4 gives the payload [4].               *)
(***************************************************************************)
C8_EnableFirst ==
    /\ (last.op = "i2c" /\ last.result = "Ok") =>
          trace = W(<<ENABLE_I2C, compute_baud(last.frequency)>>)
    /\ (last.op = "i2c" /\ last.result = "Ok" /\ last.frequency = 2400000) =>
          trace = W(<<ENABLE_I2C, 4>>)
    /\ firstWrite \in {"none", "i2c"}
    /\ i2c.live => firstWrite = "i2c"
    /\ (last.op \in {"send", "read", "transfer"} /\ trace # <<>>) =>
          trace[1] = <<"w", START>>

\* an engine was built and its first transaction has been written
C8_Witness ==
    /\ calls = 2 /\ firstWrite = "i2c"
    /\ last.op = "send" /\ last.result = "Ok" /\ i2c.live

(***************************************************************************)
(* C11.  A stream call of send, read or transfer that fails with an I/O    *)
(* error ends the operation, and the operation returns that error to its   *)
(* caller.                                                                 *)
(***************************************************************************)
EngineOps == {"send", "read", "transfer"}

C11_IOFailureReturned ==
    (last.op \in EngineOps /\ last.fault # 0) => last.result = "Err"

(***************************************************************************)
(* C12.  The writes of PortSocket return Ok only when the stream has taken *)
(* every byte handed to them: an operation whose writes all returned Ok    *)
(* has left no byte behind.                                                *)
(***************************************************************************)
C12_WritesEveryByte ==
    (last.op \in EngineOps /\ last.result = "Ok") => last.dropped = 0

(***************************************************************************)
(* The channel one stream call at a time.  Each of enable, send, read and  *)
(* transfer starts with let mut sock = self.socket.lock().unwrap() and     *)
(* keeps the guard to the end of its body.  Rc<Mutex<PortSocket>> keeps    *)
(* every holder of the channel on one thread, where an operation runs to   *)
(* its end before the next starts; here two callers may be inside an       *)
(* operation at once, which covers that program and any other scheduling   *)
(* of the same bodies.                                                     *)
(***************************************************************************)
MaxChanOps == 3        \* operations started on the channel
MaxChanInbound == 2    \* bytes the coprocessor may have queued

\* the stream calls of a list of writes: write_command makes two, write one
RECURSIVE StreamCalls(_)
StreamCalls(items) ==
    IF items = <<>> THEN <<>>
    ELSE LET it == Head(items)
         IN  (IF it.raw THEN <<it.buf>> ELSE <<<<it.cmd>>, it.buf>>)
                \o StreamCalls(Tail(items))

\* the operations drawn, with their writes and the lengths of their reads
\* (the reply tag, then the payload)
ChanOps ==
    {[op |-> "enable", writes |-> enable_writes(4), reads |-> <<>>],
     [op |-> "send", writes |-> send_writes(5, <<7>>), reads |-> <<>>],
     [op |-> "read", writes |-> read_writes(5, 1), reads |-> <<1, 1>>],
     [op |-> "transfer", writes |-> transfer_writes(5, <<7>>, 1),
      reads |-> <<1, 1>>]}

\* a lock() that lets the caller in whoever holds the mutex
Mutex_lock_unguarded(holder, isPoisoned) ==
    IF isPoisoned THEN "Panic" ELSE "Ok"

\* self.socket.lock().unwrap(): waits while the mutex is held, panics on a
\* poisoned mutex
Mutex_lock(holder, isPoisoned) ==
    IF holder # 0 THEN "Blocked"
    ELSE IF isPoisoned THEN "Panic" ELSE "Ok"

InitChan ==
    /\ pins = I2CPins
    /\ locked = {}
    /\ poisoned = {}
    /\ handles = [i \in PinIndices |-> 0]
    /\ errs = {}
    /\ i2c = NoI2C
    /\ sockPoisoned = FALSE
    /\ trace = <<>>
    /\ firstWrite = "none"
    /\ inq = <<>>
    /\ status = "running"
    /\ calls = 0
    /\ last = NoCall
    /\ cb_in = 0
    /\ cb_out = -1
    /\ ch = NoChan
    /\ led = NoLED

ChanRest == <<pins, locked, poisoned, handles, errs, i2c, sockPoisoned, trace,
              firstWrite, inq, status, calls, last, cb_in, cb_out, led>>

\* caller c enters operation o: the lock() of its first line
ChanBegin(c, o) ==
    /\ ch.run[c] = Idle
    /\ ch.started < MaxChanOps
    /\ LET how == Mutex_lock(ch.holder, ch.poisoned)
       IN  /\ how # "Blocked"
           /\ ch' = IF how = "Panic"
                    THEN [ch EXCEPT !.started = @ + 1]
                    ELSE [ch EXCEPT !.started = @ + 1,
                                    !.holder = c,
                                    !.run[c] = [op |-> o.op,
                                                serial |-> ch.started + 1,
                                                todo |-> StreamCalls(o.writes),
                                                reads |-> o.reads,
                                                tag |-> o.reads # <<>>]]
    /\ UNCHANGED ChanRest

\* the next stream call of caller c's operation succeeds: a write, or a
\* read_exact once its bytes are there; a reply tag that is not DATA fails
\* the assert_eq!, and the unwinding drops the guard and poisons the mutex
ChanStep(c) ==
    LET r == ch.run[c]
    IN  /\ r.op # "none"
        /\ \/ /\ r.todo # <<>>
              /\ ch' = [ch EXCEPT
                          !.wire = @ \o [i \in 1..Len(Head(r.todo)) |->
                                           <<r.serial, "w", Head(r.todo)[i]>>],
                          !.run[c].todo = Tail(@)]
           \/ /\ r.todo = <<>>
              /\ r.reads # <<>>
              /\ Len(ch.inq) >= Head(r.reads)
              /\ LET n == Head(r.reads)
                     got == [i \in 1..n |-> <<r.serial, "r", ch.inq[i]>>]
                     rest == SubSeq(ch.inq, n + 1, Len(ch.inq))
                 IN  ch' = IF r.tag /\ ch.inq[1] # DATA
                           THEN [ch EXCEPT !.wire = @ \o got, !.inq = rest,
                                           !.run[c] = Idle, !.holder = 0,
                                           !.poisoned = TRUE]
                           ELSE [ch EXCEPT !.wire = @ \o got, !.inq = rest,
                                           !.run[c].reads = Tail(@),
                                           !.run[c].tag = FALSE]
        /\ UNCHANGED ChanRest

\* the next stream call of caller c's operation fails with an I/O error: a
\* write is unwrap()ed and a failed tag read ends in the assert_eq! (panic:
\* the guard is dropped, the mutex poisoned); a failed payload read is
\* returned
ChanFail(c) ==
    LET r == ch.run[c]
    IN  /\ r.op # "none"
        /\ r.todo # <<>> \/ r.reads # <<>>
        /\ ch' = [ch EXCEPT !.run[c] = Idle, !.holder = 0,
                            !.poisoned = @ \/ r.todo # <<>> \/ r.tag]
        /\ UNCHANGED ChanRest

\* the operation returns: sock goes out of scope and unlocks the mutex
ChanReturn(c) ==
    LET r == ch.run[c]
    IN  /\ r.op # "none"
        /\ r.todo = <<>>
        /\ r.reads = <<>>
        /\ ch' = [ch EXCEPT !.run[c] = Idle, !.holder = 0]
        /\ UNCHANGED ChanRest

\* the coprocessor sends a byte
ChanReply(b) ==
    /\ Len(ch.inq) < MaxChanInbound
    /\ ch.started < MaxChanOps \/ \E c \in Callers : ch.run[c].op # "none"
    /\ ch' = [ch EXCEPT !.inq = Append(@, b)]
    /\ UNCHANGED ChanRest

NextChan ==
    \/ \E c \in Callers, o \in ChanOps : ChanBegin(c, o)
    \/ \E c \in Callers : ChanStep(c)
    \/ \E c \in Callers : ChanFail(c)
    \/ \E c \in Callers : ChanReturn(c)
    \/ \E b \in DeviceBytes : ChanReply(b)

SpecChan == InitChan /\ [][NextChan]_vars

(***************************************************************************)
(* C13.  An operation in progress holds the channel mutex from its first   *)
(* stream call to its last, the bytes of one operation are contiguous on   *)
(* the wire, and the mutex is free whenever no operation is in progress.   *)
(***************************************************************************)
C13_ChannelSerialised ==
    /\ \A c \in Callers : ch.run[c].op # "none" => ch.holder = c
    /\ ch.holder # 0 => ch.run[ch.holder].op # "none"
    /\ \A i, k \in 1..Len(ch.wire) :
          (i < k /\ ch.wire[i][1] = ch.wire[k][1]) =>
             \A j \in i..k : ch.wire[j][1] = ch.wire[i][1]

\* a read has returned after a send and a third operation holds the mutex
C13_Witness ==
    /\ ch.started = 3 /\ ch.holder # 0 /\ ~ch.poisoned
    /\ \E i, j \in 1..Len(ch.wire) :
          /\ ch.wire[i][1] = 1 /\ ch.wire[j] = <<2, "r", 7>>
          /\ \E k \in 1..Len(ch.wire) : ch.wire[k][1] = 3

(***************************************************************************)
(* C14.  i2c locks pin 0 and then pin 1.  When the lock of pin 0 does not  *)
(* give a Pin, pin 1 is not touched and no engine is built; when pin 0     *)
(* gave a Pin, the lock of pin 1 does not, and i2c returns, pin 0 is       *)
(* unlocked again and pin(0) would return a Pin.                           *)
(***************************************************************************)
C14_SclFails == Port_pin(pins, locked, poisoned, 0).out # "Ok"
C14_SdaFails ==
    /\ ~C14_SclFails
    /\ Port_pin(pins, locked \cup {0}, poisoned, 1).out # "Ok"

C14_PinOrder ==
    [][Called("i2c") =>
          /\ C14_SclFails =>
                /\ (1 \in locked') = (1 \in locked)
                /\ (1 \in poisoned') = (1 \in poisoned)
                /\ (1 \in errs') = (1 \in errs)
                /\ i2c' = i2c
                /\ last'.result # "Ok"
          /\ (C14_SdaFails /\ last'.result = "Err") =>
                /\ 0 \notin locked'
                /\ i2c' = i2c
                /\ Port_pin(pins', locked', poisoned', 0).out = "Ok"]_vars

\* i2c has returned the error of pin 1 and pin 0 is free
C14_Witness ==
    /\ last.op = "i2c" /\ last.result = "Err"
    /\ 1 \in errs /\ 0 \notin errs /\ 0 \notin locked

(***************************************************************************)
(* C15.  Whatever pin() and i2c() calls are made on a port, no caller      *)
(* waits forever on a pin lock, a lock it holds itself included.           *)
(***************************************************************************)
C15_NoPinDeadlock == status # "blocked"

(***************************************************************************)
(* C16.  pin(index) on an index without a registry entry returns an error  *)
(* to its caller; it creates no handle, takes no lock and writes nothing.  *)
(***************************************************************************)
C16_UnknownPinError ==
    (last.op = "pin" /\ last.index \notin pins) =>
        /\ last.result = "Err"
        /\ handles[last.index] = 0
        /\ last.index \notin locked
        /\ trace = <<>>

(***************************************************************************)
(* C17.  While an engine exists pins 0 and 1 are locked and no other       *)
(* handle for them exists; no step that leaves the engine alive unlocks    *)
(* them; and once the engine is dropped pin(0) and pin(1) each return a    *)
(* Pin again.                                                              *)
(***************************************************************************)
C17_HeldWhileAlive ==
    i2c.live => /\ I2CPins \subseteq locked
                /\ \A i \in I2CPins : handles[i] = 0 /\ i \notin errs

C17_KeptByOperations ==
    (i2c.live /\ i2c'.live) => I2CPins \subseteq locked'

\* (for a thread that goes on running: the drop of a thread that ends is left out)
C17_FreeAfterDrop ==
    (i2c.live /\ ~i2c'.live /\ status' = "running") =>
        \A i \in I2CPins : Port_pin(pins', locked', poisoned', i).out = "Ok"

C17_EngineHoldsPins ==
    /\ []C17_HeldWhileAlive
    /\ [][C17_KeptByOperations]_vars
    /\ [][C17_FreeAfterDrop]_vars

(***************************************************************************)
(* LED: a value and the file behind it.                                    *)
(***************************************************************************)
MaxLedCalls == 4       \* on/off/high/low/toggle calls on one LED

LedOps == {"on", "off", "high", "low", "toggle"}

\* b'1' and b'0'
LED_byte(new_value) == IF new_value THEN 49 ELSE 48

\* a write that replaces the content of the file
LED_write_replacing(l, new_value, ok) ==
    [l EXCEPT !.value = new_value,
              !.file = IF ok THEN <<LED_byte(new_value)>> ELSE @,
              !.lastOk = IF ok THEN new_value ELSE @,
              !.result = IF ok THEN "Ok" ELSE "Err"]

\* LED::write: self.value = new_value, then self.file.write_all(&[byte]);
\* ok: the file takes the byte
LED_write(l, new_value, ok) ==
    [l EXCEPT !.value = new_value,
              !.file = IF ok THEN Append(@, LED_byte(new_value)) ELSE @,
              !.lastOk = IF ok THEN new_value ELSE @,
              !.result = IF ok THEN "Ok" ELSE "Err"]

LED_high(l, ok) == LED_write(l, TRUE, ok)
LED_low(l, ok) == LED_write(l, FALSE, ok)
LED_on(l, ok) == LED_high(l, ok)
LED_off(l, ok) == LED_low(l, ok)
LED_toggle(l, ok) == LED_write(l, ~l.value, ok)
LED_read(l) == l.value

\* LED::new_with_file on an empty file: value false, then off().unwrap()
LED_new_with_file(ok) ==
    LET l == LED_off([NoLED EXCEPT !.made = TRUE, !.op = "new"], ok)
    IN  IF ok THEN l ELSE [NoLED EXCEPT !.op = "new", !.result = "Panic"]

InitLED == InitChan

LedRest == <<pins, locked, poisoned, handles, errs, i2c, sockPoisoned, trace,
             firstWrite, inq, status, calls, last, cb_in, cb_out, ch>>

LEDNew(ok) ==
    /\ led = NoLED
    /\ led' = LED_new_with_file(ok)
    /\ UNCHANGED LedRest

LEDCall(op, ok) ==
    /\ led.made
    /\ led.ops < MaxLedCalls
    /\ LET l == [led EXCEPT !.op = op, !.was = led.value, !.ops = @ + 1]
       IN  led' = CASE op = "on" -> LED_on(l, ok)
                    [] op = "off" -> LED_off(l, ok)
                    [] op = "high" -> LED_high(l, ok)
                    [] op = "low" -> LED_low(l, ok)
                    [] op = "toggle" -> LED_toggle(l, ok)
    /\ UNCHANGED LedRest

LEDRead ==
    /\ led.made
    /\ led' = [led EXCEPT !.got = LED_read(led)]
    /\ UNCHANGED LedRest

NextLED ==
    \/ \E ok \in BOOLEAN : LEDNew(ok)
    \/ \E op \in LedOps, ok \in BOOLEAN : LEDCall(op, ok)
    \/ LEDRead

SpecLED == InitLED /\ [][NextLED]_vars

(***************************************************************************)
(* C18.  A new LED has written the single byte '0' and reads false; each   *)
(* on/off/high/low/toggle that succeeds appends one byte, '1' for true and *)
(* '0' for false, for the new value (toggle: the negation of the value     *)
(* before), and read() then returns that value.                            *)
(***************************************************************************)
C18_Asked ==
    CASE led'.op \in {"on", "high"} -> TRUE
      [] led'.op \in {"off", "low"} -> FALSE
      [] OTHER -> ~led.value

C20_ReadIsLastWritten == led.made => LED_read(led) = led.lastOk

(***************************************************************************)
(* Buffers around the limit of the one-byte length field: one operation of *)
(* an engine on a stream that takes every byte, with the reply tag and the *)
(* payload already sent by the coprocessor.                                *)
(***************************************************************************)
MaxShortLen == 2       \* short buffers: 0..MaxShortLen bytes
MaxLongLen == 270      \* long buffers: U8_MAX - 5 .. MaxLongLen bytes

BufLens == (0..MaxShortLen) \cup ((U8_MAX - 5)..MaxLongLen)

InitLen ==
    /\ pins = I2CPins
    /\ locked = I2CPins
    /\ poisoned = {}
    /\ handles = [i \in PinIndices |-> 0]
    /\ errs = {}
    /\ i2c = [live |-> TRUE, frequency |-> 1000000]
    /\ sockPoisoned = FALSE
    /\ trace = <<>>
    /\ firstWrite = "i2c"
    /\ inq = <<>>
    /\ status = "running"
    /\ calls = 0
    /\ last = NoCall
    /\ cb_in = 0
    /\ cb_out = -1
    /\ ch = NoChan
    /\ led = NoLED

\* what one operation leaves behind
LenCall(o, rec) ==
    /\ calls = 0
    /\ calls' = 1
    /\ trace' = o.sock.tr
    /\ inq' = o.sock.inq
    /\ last' = [rec EXCEPT !.result = o.result, !.rbuf = o.rbuf,
                           !.fault = o.sock.fault, !.dropped = o.sock.dropped]
    /\ UNCHANGED <<pins, locked, poisoned, handles, errs, i2c, sockPoisoned,
                   firstWrite, status, cb_in, cb_out, ch, led>>

LenSend(address, len) ==
    LenCall(I2C_send(SockOf(<<>>, <<>>, NoPlan), address, Zeros(len)),
            [NoCall EXCEPT !.op = "send", !.address = address,
                           !.wbuf = Zeros(len)])

LenRead(address, len) ==
    LenCall(I2C_read(SockOf(<<>>, <<DATA>> \o Zeros(len), NoPlan), address, len),
            [NoCall EXCEPT !.op = "read", !.address = address, !.rlen = len])

LenTransfer(address, len) ==
    LenCall(I2C_transfer(SockOf(<<>>, <<DATA>> \o Zeros(len), NoPlan), address,
                         <<7>>, len),
            [NoCall EXCEPT !.op = "transfer", !.address = address,
                           !.wbuf = <<7>>, !.rlen = len])

NextLen ==
    \/ \E address \in Addresses, len \in BufLens : LenSend(address, len)
    \/ \E address \in Addresses, len \in BufLens : LenRead(address, len)
    \/ \E address \in Addresses, len \in BufLens : LenTransfer(address, len)

SpecLen == InitLen /\ [][NextLen]_vars

(***************************************************************************)
(* C19.  For a buffer of any length the length byte of the TX frame of     *)
(* send is the number of raw bytes written between that frame and the      *)
(* STOP frame, and the length byte of the RX frame of read and transfer is *)
(* the number of payload bytes the engine then reads.                      *)
(***************************************************************************)
C19_LengthByteMatches ==
    /\ (last.op = "send" /\ last.result = "Ok") =>
          /\ trace[3] = <<"w", TX>>
          /\ trace[4][2] = Len(trace) - 5
    /\ (last.op = "read" /\ last.result = "Ok") =>
          /\ trace[3] = <<"w", RX>>
          /\ trace[4][2] = Len(last.rbuf)
    /\ (last.op = "transfer" /\ last.result = "Ok") =>
          /\ trace[7] = <<"w", RX>>
          /\ trace[8][2] = Len(last.rbuf)

====
